---- MODULE Spec2Model ----
(***************************************************************************)
(* Model of lib/sqlalchemy_sandbox.py: one Student table in an in-memory   *)
(* SQLite database, one ORM session, and the script's statements executed  *)
(* in order.  The script body is parametrised over the Student objects it  *)
(* constructs (lines 39-59): Init draws the list of seed objects from a    *)
(* bounded set that contains the script's own two objects (ScriptSeed).    *)
(*                                                                         *)
(* Names are sequences of characters so that LIKE and ORDER BY act on the  *)
(* spelling.  A Python Optional is [some |-> FALSE] (None) or              *)
(* [some |-> TRUE, val |-> v].                                             *)
(***************************************************************************)
EXTENDS Integers, Sequences, FiniteSets, TLC

\* ------------------------------------------------------------------ bounds
\* Largest number of Student objects handed to bulk_save_objects.
MaxRows == 2

\* ------------------------------------------------------------- characters
\* ASCII codes of the characters that occur in the modelled names.
Code(c) ==
  CASE c = " " -> 32 [] c = "%" -> 37 [] c = "_" -> 95
    [] c = "A" -> 65 [] c = "E" -> 69 [] c = "T" -> 84
    [] c = "a" -> 97 [] c = "b" -> 98 [] c = "e" -> 101 [] c = "g" -> 103
    [] c = "i" -> 105 [] c = "j" -> 106 [] c = "l" -> 108
    [] c = "n" -> 110 [] c = "o" -> 111 [] c = "r" -> 114 [] c = "s" -> 115
    [] c = "t" -> 116 [] c = "u" -> 117

Alphabet ==
  {" ", "%", "_", "A", "E", "T", "a", "b", "e", "g", "i", "j",
   "l", "n", "o", "r", "s", "t", "u"}

\* Mutant of Fold: no case folding (a case-sensitive LIKE).
Fold_Sensitive(c) == c

\* SQLite's LIKE folds ASCII upper case to lower case before comparing.
Fold(c) ==
  IF Code(c) \in 65..90
    THEN CHOOSE d \in Alphabet : Code(d) = Code(c) + 32
    ELSE c

\* ------------------------------------------------------------ seed values
AlbertEinstein ==
  <<"A","l","b","e","r","t"," ","E","i","n","s","t","e","i","n">>
AlanTuring == <<"A","l","a","n"," ","T","u","r","i","n","g">>
JoanAlanLower == <<"j","o","a","n"," ","a","l","a","n">>

\* name, email pairs of the people a seed object can describe.
People ==
  { [name |-> AlbertEinstein, email |-> "albert.einstein@zurich.edu"],
    [name |-> AlanTuring, email |-> "alan.turing@sherborne.edu"],
    [name |-> JoanAlanLower, email |-> "joan.alan@example.edu"] }

Grades == {6, 11}

\* datetime(year, month, day) as <<year, month, day>>.
Birthdays == { <<1879, 3, 14>>, <<1879, 10, 2>>, <<1912, 6, 23>> }

\* Student(name=..., email=..., grade=..., birthday=...): id and
\* enrolled_date are not given by the constructor call.
StudentObjects ==
  { [name |-> p.name, email |-> p.email, grade |-> g, birthday |-> b] :
      p \in People, g \in Grades, b \in Birthdays }

\* The two objects the script constructs, in the order it saves them.
ScriptSeed ==
  << [name |-> AlbertEinstein, email |-> "albert.einstein@zurich.edu",
      grade |-> 6, birthday |-> <<1879, 3, 14>>],
     [name |-> AlanTuring, email |-> "alan.turing@sherborne.edu",
      grade |-> 11, birthday |-> <<1912, 6, 23>>] >>

Seeds == UNION { [1..n -> StudentObjects] : n \in 0..MaxRows }

\* default=datetime.now() is evaluated once, when the class body runs.
EnrolledDefault == "class_definition_time"

None == [some |-> FALSE]
Some(v) == [some |-> TRUE, val |-> v]

VARIABLES
  pc,          \* the statement the script executes next
  seed,        \* the Student objects passed to bulk_save_objects
  table,       \* rows of students as the connection sees them, rowid order
  committed,   \* rows of students as of the last COMMIT
  objs,        \* the session's identity map: id -> object state
  deleted,     \* ids of objects marked deleted and not yet flushed
  iter,        \* ids left to visit by the for loop of line 123
  target,      \* the variable albert_einstein of lines 149-170
  out,         \* what each phase printed
  exit_status  \* None while running, Some(0) / Some(1) once the process ended

vars ==
  <<pc, seed, table, committed, objs, deleted, iter, target, out,
    exit_status>>

\* -------------------------------------------------------------- SQL engine
Range(s) == { s[i] : i \in DOMAIN s }

Ids(t) == { t[i].id : i \in DOMAIN t }

\* a sorts strictly before b under byte-wise (memcmp-like) comparison.
LexLess(a, b) ==
  \E k \in 1..(Len(b)) :
    /\ \A j \in 1..(k - 1) : j <= Len(a) /\ a[j] = b[j]
    /\ k - 1 <= Len(a)
    /\ (k > Len(a) \/ a[k] < b[k])

\* Mutant of OrderBy: an unstable sort, a row goes before the rows of equal key.
OrderBy_TiesReversed(t, keys) ==
  LET idx[n \in 0..Len(t)] ==
        IF n = 0 THEN <<>>
        ELSE LET prev == idx[n - 1]
                 k == Cardinality({ i \in DOMAIN prev :
                                      LexLess(keys[prev[i]], keys[n]) })
             IN  SubSeq(prev, 1, k) \o <<n>> \o SubSeq(prev, k + 1, Len(prev))
  IN  [ i \in 1..Len(t) |-> t[idx[Len(t)][i]] ]

\* ORDER BY over the rows t scanned in rowid order; keys[i] is the sort key
\* of t[i].  SQLite's sorter keeps rows with equal keys in scan order.
OrderBy(t, keys) ==
  LET idx[n \in 0..Len(t)] ==
        IF n = 0 THEN <<>>
        ELSE LET prev == idx[n - 1]
                 k == Cardinality({ i \in DOMAIN prev :
                                      ~ LexLess(keys[n], keys[prev[i]]) })
             IN  SubSeq(prev, 1, k) \o <<n>> \o SubSeq(prev, k + 1, Len(prev))
  IN  [ i \in 1..Len(t) |-> t[idx[Len(t)][i]] ]

NameKey(name) == [ i \in 1..Len(name) |-> Code(name[i]) ]

\* desc(Student.grade): larger grades first.
GradeDescKey(grade) == << 0 - grade >>

\* The SQLite DateTime type stores 'YYYY-MM-DD HH:MM:SS.ffffff' text and
\* compares it as text; the key is the digits of the date part.
BirthdayKey(d) ==
  << d[1] \div 1000, (d[1] \div 100) % 10, (d[1] \div 10) % 10, d[1] % 10,
     d[2] \div 10, d[2] % 10, d[3] \div 10, d[3] % 10 >>

\* LIMIT n
Limit(t, n) == SubSeq(t, 1, IF Len(t) < n THEN Len(t) ELSE n)

\* Query.first(): LIMIT 1, then the row or None.
First(t) == IF Limit(t, 1) = <<>> THEN None ELSE Some(Limit(t, 1)[1])

RECURSIVE LikeMatch(_, _)
\* SQLite patternCompare for LIKE: % matches any run, _ one character,
\* other characters match after case folding.
LikeMatch(p, s) ==
  IF p = <<>> THEN s = <<>>
  ELSE IF Head(p) = "%"
    THEN LikeMatch(Tail(p), s) \/ (s # <<>> /\ LikeMatch(p, Tail(s)))
  ELSE IF Head(p) = "_"
    THEN s # <<>> /\ LikeMatch(Tail(p), Tail(s))
  ELSE s # <<>> /\ Fold(Head(p)) = Fold(Head(s))
         /\ LikeMatch(Tail(p), Tail(s))

\* The pattern of line 115.
AlanPattern == <<"%", "A", "l", "a", "n", "%">>


\* --------------------------------------------------------------- INSERT
MaxId(t) ==
  IF t = <<>> THEN 0 ELSE CHOOSE m \in Ids(t) : \A x \in Ids(t) : x <= m

\* The row an INSERT of Student object o stores under rowid id.
NewRow(o, id) ==
  [id |-> id, name |-> o.name, email |-> o.email, grade |-> o.grade,
   birthday |-> o.birthday, enrolled_date |-> EnrolledDefault]

\* Mutant of BulkInsert: only the first object is saved (session.add of one).
BulkInsert_FirstOnly(t, os) ==
  IF os = <<>> THEN t ELSE t \o << NewRow(os[1], MaxId(t) + 1) >>

\* bulk_save_objects(os): one INSERT per object, in list order; an INTEGER
\* PRIMARY KEY left out of the INSERT gets the largest rowid plus one.
BulkInsert(t, os) ==
  t \o [ i \in 1..Len(os) |-> NewRow(os[i], MaxId(t) + i) ]

\* --------------------------------------------------------------- SELECT
SelectNames(t) == [ i \in DOMAIN t |-> << t[i].name >> ]

SelectNamesByName(t) ==
  SelectNames(OrderBy(t, [ i \in DOMAIN t |-> NameKey(t[i].name) ]))

SelectByGradeDesc(t) ==
  LET s == OrderBy(t, [ i \in DOMAIN t |-> GradeDescKey(t[i].grade) ])
  IN  [ i \in DOMAIN s |-> << s[i].name, s[i].grade >> ]

SelectByBirthday(t) ==
  LET s == OrderBy(t, [ i \in DOMAIN t |-> BirthdayKey(t[i].birthday) ])
  IN  [ i \in DOMAIN s |-> << s[i].name, s[i].birthday >> ]

\* Mutant of SelectOldestFirst: first() on the query without its order_by.
SelectOldestFirst_Unordered(t) ==
  First([ i \in DOMAIN t |-> << t[i].name, t[i].birthday >> ])

\* ...order_by(Student.birthday).limit(1).all()
SelectOldestLimit(t) == Limit(SelectByBirthday(t), 1)

\* ...order_by(Student.birthday).first()
SelectOldestFirst(t) == First(SelectByBirthday(t))

\* query(func.count(Student.id)).first(): one row holding the number of
\* rows whose id is not NULL.
SelectCount(t) ==
  First(<< << Cardinality({ i \in DOMAIN t : t[i].id \in Int }) >> >>)

\* filter(Student.name.like('%Alan%'), Student.grade == 11)
SelectFiltered(t) ==
  SelectSeq(t, LAMBDA r : LikeMatch(AlanPattern, r.name) /\ r.grade = 11)

\* filter(Student.name == name)
SelectByName(t, name) == SelectSeq(t, LAMBDA r : r.name = name)

\* ------------------------------------------------------- UPDATE / DELETE
\* UPDATE students SET grade = grade + 1
BulkUpdateGrade(t) ==
  [ i \in DOMAIN t |-> [ t[i] EXCEPT !.grade = t[i].grade + 1 ] ]

\* Mutant of BulkDeleteByName: the table is rebuilt and rowids renumbered.
BulkDeleteByName_Renumber(t, name) ==
  LET kept == SelectSeq(t, LAMBDA r : r.name # name)
  IN  [ i \in DOMAIN kept |-> [ kept[i] EXCEPT !.id = i ] ]

\* DELETE FROM students WHERE name = ?
BulkDeleteByName(t, name) == SelectSeq(t, LAMBDA r : r.name # name)

\* ---------------------------------------------------------------- session
RowOf(t, id) == CHOOSE r \in Range(t) : r.id = id

\* An entity query returned rows: objects already in the identity map and
\* not expired keep their state, the others are populated from their row.
LoadEntities(o, rows) ==
  [ id \in DOMAIN o \cup Ids(rows) |->
      IF id \in Ids(rows) /\ (id \notin DOMAIN o \/ o[id].expired)
        THEN [row |-> RowOf(rows, id), expired |-> FALSE, dirty |-> FALSE]
        ELSE o[id] ]

\* The objects an entity query yields, in result order.
Entities(o, rows) == [ i \in DOMAIN rows |-> o[rows[i].id].row ]

\* Student.__repr__: "Student {id}: {name}, Grade {grade}"
Repr(r) == << r.id, r.name, r.grade >>

\* Mutant of Flush: only the first pending UPDATE is emitted.
Flush_FirstDirtyOnly(t, o, del) ==
  LET dirty == { id \in DOMAIN o : o[id].dirty }
      kept == SelectSeq(t, LAMBDA r : r.id \notin del)
  IN  [ i \in DOMAIN kept |->
          IF kept[i].id \in dirty /\ \A x \in dirty : kept[i].id <= x
            THEN [ kept[i] EXCEPT !.grade = o[kept[i].id].row.grade ]
            ELSE kept[i] ]

\* Mutant of Flush: pending deletes are dropped.
Flush_NoDelete(t, o, del) ==
  [ i \in DOMAIN t |->
      IF t[i].id \in DOMAIN o /\ o[t[i].id].dirty
        THEN [ t[i] EXCEPT !.grade = o[t[i].id].row.grade ]
        ELSE t[i] ]

\* session.flush(): an UPDATE ... WHERE id = ? for every modified object
\* and a DELETE ... WHERE id = ? for every object marked deleted.
Flush(t, o, del) ==
  LET kept == SelectSeq(t, LAMBDA r : r.id \notin del)
  IN  [ i \in DOMAIN kept |->
          IF kept[i].id \in DOMAIN o /\ o[kept[i].id].dirty
            THEN [ kept[i] EXCEPT !.grade = o[kept[i].id].row.grade ]
            ELSE kept[i] ]

\* After COMMIT: deleted objects leave the session, the others are expired
\* (expire_on_commit defaults to True).
ExpireAll(o, del) ==
  [ id \in DOMAIN o \ del |-> [ o[id] EXCEPT !.expired = TRUE, !.dirty = FALSE ] ]

\* Mutant of SyncUpdateGrade: synchronize_session=False, objects keep stale values.
SyncUpdateGrade_NoSync(o) == o

\* update(..., synchronize_session='evaluate'): the new value is computed
\* in Python on every loaded object of the session.
SyncUpdateGrade(o) ==
  [ id \in DOMAIN o |->
      IF o[id].expired THEN o[id]
      ELSE [ o[id] EXCEPT !.row.grade = o[id].row.grade + 1 ] ]

\* delete(synchronize_session='evaluate'): matched objects leave the session.
SyncDeleteByName(o, t, name) ==
  [ id \in { x \in DOMAIN o : x \notin Ids(SelectByName(t, name)) } |-> o[id] ]

Put(o, key, val) == [ k \in DOMAIN o \cup {key} |-> IF k = key THEN val ELSE o[k] ]


\* ------------------------------------------------------------------ script
Init ==
  /\ pc = "bulk_save"
  /\ seed \in Seeds
  /\ table = <<>>
  /\ committed = <<>>
  /\ objs = <<>>
  /\ deleted = {}
  /\ iter = <<>>
  /\ target = None
  /\ out = <<>>
  /\ exit_status = None

\* A statement that only reads the database and prints.  Every query
\* autoflushes first; wherever the script queries, no object is modified or
\* marked deleted (pending changes exist only between line 124 and 126 and
\* between line 152 and 153), so the autoflush emits no statement.
ReadOnly == UNCHANGED <<seed, table, committed, deleted, iter, target, exit_status>>

\* line 62: session.bulk_save_objects([albert_einstein, alan_turing])
BulkSaveObjects ==
  /\ pc = "bulk_save"
  /\ table' = BulkInsert(table, seed)
  /\ pc' = "commit_insert"
  /\ UNCHANGED <<seed, committed, objs, deleted, iter, target, out, exit_status>>

\* line 63: session.commit()
CommitInsert ==
  /\ pc = "commit_insert"
  /\ table' = Flush(table, objs, deleted)
  /\ committed' = table'
  /\ objs' = ExpireAll(objs, deleted)
  /\ deleted' = {}
  /\ pc' = "query_all"
  /\ UNCHANGED <<seed, iter, target, out, exit_status>>

\* lines 71-72: students = session.query(Student).all(); print(students)
QueryAll ==
  /\ pc = "query_all"
  /\ objs' = LoadEntities(objs, table)
  /\ out' = Put(out, "all", [ i \in DOMAIN table |-> Repr(Entities(objs', table)[i]) ])
  /\ pc' = "query_names"
  /\ ReadOnly

\* lines 75-76: session.query(Student.name).all()
QueryNames ==
  /\ pc = "query_names"
  /\ out' = Put(out, "names", SelectNames(table))
  /\ pc' = "order_by_name"
  /\ ReadOnly /\ UNCHANGED objs

\* lines 80-84: query(Student.name).order_by(Student.name).all()
OrderByName ==
  /\ pc = "order_by_name"
  /\ out' = Put(out, "by_name", SelectNamesByName(table))
  /\ pc' = "order_by_grade_desc"
  /\ ReadOnly /\ UNCHANGED objs

\* lines 87-91: query(Student.name, Student.grade).order_by(desc(Student.grade)).all()
OrderByGradeDesc ==
  /\ pc = "order_by_grade_desc"
  /\ out' = Put(out, "by_grade_desc", SelectByGradeDesc(table))
  /\ pc' = "limit"
  /\ ReadOnly /\ UNCHANGED objs

\* lines 95-99: ...order_by(Student.birthday).limit(1).all()
LimitOne ==
  /\ pc = "limit"
  /\ out' = Put(out, "limit", SelectOldestLimit(table))
  /\ pc' = "first"
  /\ ReadOnly /\ UNCHANGED objs

\* lines 102-106: ...order_by(Student.birthday).first()
FirstOne ==
  /\ pc = "first"
  /\ out' = Put(out, "first", SelectOldestFirst(table))
  /\ pc' = "count"
  /\ ReadOnly /\ UNCHANGED objs

\* lines 109-110: session.query(func.count(Student.id)).first()
CountStudents ==
  /\ pc = "count"
  /\ out' = Put(out, "count", SelectCount(table))
  /\ pc' = "filter"
  /\ ReadOnly /\ UNCHANGED objs

\* lines 115-119: the filtered entity query; prints record.id, record.name
FilterStudents ==
  /\ pc = "filter"
  /\ LET rows == SelectFiltered(table)
     IN  /\ objs' = LoadEntities(objs, rows)
         /\ out' = Put(out, "filter",
                       [ i \in DOMAIN rows |->
                           << Entities(objs', rows)[i].id,
                              Entities(objs', rows)[i].name >> ])
  /\ pc' = "update_loop_start"
  /\ ReadOnly

\* line 123: the for statement runs the query and loads every row
UpdateLoopStart ==
  /\ pc = "update_loop_start"
  /\ objs' = LoadEntities(objs, table)
  /\ iter' = [ i \in DOMAIN table |-> table[i].id ]
  /\ pc' = "update_loop"
  /\ UNCHANGED <<seed, table, committed, deleted, target, out, exit_status>>

\* Mutant of UpdateLoopStep: every assignment is written to the table at once.
UpdateLoopStep_WriteThrough ==
  /\ pc = "update_loop"
  /\ iter # <<>>
  /\ objs' = [ objs EXCEPT ![Head(iter)].row.grade = @ + 1 ]
  /\ table' = [ i \in DOMAIN table |->
                  IF table[i].id = Head(iter)
                    THEN [ table[i] EXCEPT !.grade = @ + 1 ] ELSE table[i] ]
  /\ iter' = Tail(iter)
  /\ UNCHANGED <<pc, seed, committed, deleted, target, out, exit_status>>

\* line 124: student.grade += 1, on the next object of the loop
UpdateLoopStep ==
  /\ pc = "update_loop"
  /\ iter # <<>>
  /\ objs' = [ objs EXCEPT ![Head(iter)].row.grade = @ + 1,
                           ![Head(iter)].dirty = TRUE ]
  /\ iter' = Tail(iter)
  /\ UNCHANGED <<pc, seed, table, committed, deleted, target, out, exit_status>>

\* line 126: session.commit(), once the loop is exhausted
CommitUpdate ==
  /\ pc = "update_loop"
  /\ iter = <<>>
  /\ table' = Flush(table, objs, deleted)
  /\ committed' = table'
  /\ objs' = ExpireAll(objs, deleted)
  /\ deleted' = {}
  /\ pc' = "print_after_update"
  /\ UNCHANGED <<seed, iter, target, out, exit_status>>

\* lines 128-129: [(student.name, student.grade) for student in session.query(Student)]
PrintAfterUpdate ==
  /\ pc = "print_after_update"
  /\ objs' = LoadEntities(objs, table)
  /\ out' = Put(out, "after_update",
                [ i \in DOMAIN table |->
                    << Entities(objs', table)[i].name,
                       Entities(objs', table)[i].grade >> ])
  /\ pc' = "bulk_update"
  /\ ReadOnly

\* lines 133-135: session.query(Student).update({Student.grade: Student.grade + 1})
BulkUpdate ==
  /\ pc = "bulk_update"
  /\ table' = BulkUpdateGrade(table)
  /\ objs' = SyncUpdateGrade(objs)
  /\ pc' = "print_after_bulk"
  /\ UNCHANGED <<seed, committed, deleted, iter, target, out, exit_status>>

\* lines 137-140: the same print as lines 128-129
PrintAfterBulk ==
  /\ pc = "print_after_bulk"
  /\ objs' = LoadEntities(objs, table)
  /\ out' = Put(out, "after_bulk",
                [ i \in DOMAIN table |->
                    << Entities(objs', table)[i].name,
                       Entities(objs', table)[i].grade >> ])
  /\ pc' = "delete_query_first"
  /\ ReadOnly

\* lines 144-149: albert_einstein = query.first()
DeleteQueryFirst ==
  /\ pc = "delete_query_first"
  /\ LET rows == Limit(SelectByName(table, AlbertEinstein), 1)
     IN  /\ objs' = LoadEntities(objs, rows)
         /\ target' = IF rows = <<>> THEN None ELSE Some(rows[1].id)
  /\ pc' = "session_delete"
  /\ UNCHANGED <<seed, table, committed, deleted, iter, out, exit_status>>

\* Mutant of SessionDelete: deleting None is skipped instead of raising.
SessionDelete_IgnoreNone ==
  /\ pc = "session_delete"
  /\ deleted' = IF target.some THEN deleted \cup {target.val} ELSE deleted
  /\ pc' = "commit_delete"
  /\ UNCHANGED <<seed, table, committed, objs, iter, target, out, exit_status>>

\* line 152: session.delete(albert_einstein).  session.delete(None) raises
\* UnmappedInstanceError; nothing catches it, the interpreter exits with 1.
SessionDelete ==
  /\ pc = "session_delete"
  /\ IF target.some
       THEN /\ deleted' = deleted \cup {target.val}
            /\ pc' = "commit_delete"
            /\ UNCHANGED exit_status
       ELSE /\ pc' = "error"
            /\ exit_status' = Some(1)
            /\ UNCHANGED deleted
  /\ UNCHANGED <<seed, table, committed, objs, iter, target, out>>

\* line 153: session.commit()
CommitDelete ==
  /\ pc = "commit_delete"
  /\ table' = Flush(table, objs, deleted)
  /\ committed' = table'
  /\ objs' = ExpireAll(objs, deleted)
  /\ deleted' = {}
  /\ pc' = "requery"
  /\ UNCHANGED <<seed, iter, target, out, exit_status>>

\* lines 156-158: albert_einstein = query.first(); print(albert_einstein)
Requery ==
  /\ pc = "requery"
  /\ LET rows == Limit(SelectByName(table, AlbertEinstein), 1)
     IN  /\ objs' = LoadEntities(objs, rows)
         /\ target' = IF rows = <<>> THEN None ELSE Some(rows[1].id)
         /\ out' = Put(out, "requery",
                       IF rows = <<>> THEN None
                       ELSE Some(Repr(Entities(objs', rows)[1])))
  /\ pc' = "bulk_delete"
  /\ UNCHANGED <<seed, table, committed, deleted, iter, exit_status>>

\* lines 162-166: query.delete()
BulkDelete ==
  /\ pc = "bulk_delete"
  /\ table' = BulkDeleteByName(table, AlbertEinstein)
  /\ objs' = SyncDeleteByName(objs, table, AlbertEinstein)
  /\ pc' = "final_query"
  /\ UNCHANGED <<seed, committed, deleted, iter, target, out, exit_status>>

\* lines 168-170: albert_einstein = query.first(); print(albert_einstein);
\* the script ends and the interpreter exits with 0.
FinalQuery ==
  /\ pc = "final_query"
  /\ LET rows == Limit(SelectByName(table, AlbertEinstein), 1)
     IN  /\ objs' = LoadEntities(objs, rows)
         /\ target' = IF rows = <<>> THEN None ELSE Some(rows[1].id)
         /\ out' = Put(out, "final",
                       IF rows = <<>> THEN None
                       ELSE Some(Repr(Entities(objs', rows)[1])))
  /\ pc' = "done"
  /\ exit_status' = Some(0)
  /\ UNCHANGED <<seed, table, committed, deleted, iter>>

Next ==
  \/ BulkSaveObjects
  \/ CommitInsert
  \/ QueryAll
  \/ QueryNames
  \/ OrderByName
  \/ OrderByGradeDesc
  \/ LimitOne
  \/ FirstOne
  \/ CountStudents
  \/ FilterStudents
  \/ UpdateLoopStart
  \/ UpdateLoopStep
  \/ CommitUpdate
  \/ PrintAfterUpdate
  \/ BulkUpdate
  \/ PrintAfterBulk
  \/ DeleteQueryFirst
  \/ SessionDelete
  \/ CommitDelete
  \/ Requery
  \/ BulkDelete
  \/ FinalQuery

Spec == Init /\ [][Next]_vars


\* ================================================================= claims
\* The table the seed objects give after k increments of every grade.
ExpectedTable(k) ==
  [ i \in DOMAIN seed |-> [ NewRow(seed[i], i) EXCEPT !.grade = @ + k ] ]

Printed(key) == key \in DOMAIN out

\* ---- C1
\* C1: once the seed objects are saved and committed, the full scan printed
\* one entry per seed object and the count aggregate over id returned the
\* same number; for the script's own two objects both are 2.
C1_SeedCounts ==
  Printed("count") =>
    /\ Len(out["all"]) = Len(seed)
    /\ out["count"].some
    /\ out["count"].val = << Len(out["all"]) >>
    /\ (seed = ScriptSeed => Len(out["all"]) = 2 /\ out["count"].val[1] = 2)

C1_Witness == Printed("count") /\ seed = ScriptSeed /\ pc = "filter"

\* ---- C2
\* C2: the per-row phase raises every grade by exactly 1 and the bulk update
\* raises it by 1 again, in the table and as printed by the session's own
\* queries; from grades 6 and 11 the final print is Einstein 8, Turing 13.
C2_GradesAfterBothUpdates ==
  /\ Printed("after_update") =>
       out["after_update"] =
         [ i \in DOMAIN seed |-> << seed[i].name, seed[i].grade + 1 >> ]
  /\ Printed("after_bulk") =>
       /\ out["after_bulk"] =
            [ i \in DOMAIN seed |-> << seed[i].name, seed[i].grade + 2 >> ]
       /\ out["after_bulk"] # out["after_update"] \/ seed = <<>>
       /\ seed = ScriptSeed =>
            out["after_bulk"] = << <<AlbertEinstein, 8>>, <<AlanTuring, 13>> >>
  /\ pc = "delete_query_first" =>
       \A i \in DOMAIN table : table[i].grade = seed[i].grade + 2

C2_Witness == Printed("after_bulk") /\ seed = ScriptSeed /\ pc = "delete_query_first"

\* ---- C3
\* C3: for every seeded table (integer grades), the table left by the
\* per-row strategy equals the bulk UPDATE applied to the same starting
\* table, and each strategy changes nothing but the grades, by 1.
C3_StrategiesEquivalent ==
  /\ pc = "print_after_update" =>
       /\ table = BulkUpdateGrade(ExpectedTable(0))
       /\ table = ExpectedTable(1)
       /\ committed = table
  /\ pc = "print_after_bulk" => table = ExpectedTable(2)

C3_Witness ==
  /\ pc = "print_after_bulk"
  /\ Len(table) >= 2
  /\ table[1].grade # table[2].grade

\* ---- C4
ExactlyOneEinstein ==
  Cardinality({ i \in DOMAIN seed : seed[i].name = AlbertEinstein }) = 1

NoEinsteinRow == \A i \in DOMAIN table : table[i].name # AlbertEinstein

\* C4: when one row is named Albert Einstein, after its object delete and
\* the commit the predicate query finds no row; the bulk delete that follows
\* leaves the table as committed, raises nothing, and the query still finds
\* no row.
C4_DeleteThenBulkDeleteNoop ==
  ExactlyOneEinstein =>
    /\ pc \in {"requery", "bulk_delete", "final_query", "done"} =>
         /\ NoEinsteinRow
         /\ table = committed
         /\ Len(table) = Len(seed) - 1
    /\ Printed("requery") => out["requery"] = None
    /\ pc = "final_query" => exit_status = None
    /\ Printed("final") =>
         out["final"] = None /\ pc = "done" /\ exit_status = Some(0)

C4_Witness == pc = "done" /\ ExactlyOneEinstein /\ Len(table) >= 1

\* ---- C5
DateBefore(a, b) ==
  \/ a[1] < b[1]
  \/ a[1] = b[1] /\ a[2] < b[2]
  \/ a[1] = b[1] /\ a[2] = b[2] /\ a[3] < b[3]

\* C5: limit(1).all() and first() on the birthday-ordered query give the same
\* row, a row of earliest birthday; on the script's objects it is Albert
\* Einstein.  On an empty table they give [] and None.
C5_OldestSameRow ==
  Printed("first") =>
    /\ IF seed = <<>>
         THEN out["limit"] = <<>> /\ out["first"] = None
         ELSE /\ Len(out["limit"]) = 1
              /\ out["first"].some
              /\ out["limit"][1] = out["first"].val
              /\ \E i \in DOMAIN seed :
                   /\ out["first"].val = << seed[i].name, seed[i].birthday >>
                   /\ \A j \in DOMAIN seed :
                        ~ DateBefore(seed[j].birthday, seed[i].birthday)
    /\ seed = ScriptSeed =>
         out["first"].val = << AlbertEinstein, <<1879, 3, 14>> >>

C5_Witness ==
  /\ Printed("first")
  /\ Len(seed) = 2
  /\ DateBefore(seed[2].birthday, seed[1].birthday)
  /\ seed[1].name # seed[2].name
  /\ out["first"].val[1] = seed[2].name

\* ---- C6
Alan == <<"A", "l", "a", "n">>

\* sub occurs in name, characters compared exactly.
ContainsSensitive(name, sub) ==
  \E k \in 0..(Len(name) - Len(sub)) :
    \A j \in 1..Len(sub) : name[k + j] = sub[j]

\* a and b are the same character or the two cases of one ASCII letter.
SameLetter(a, b) ==
  \/ a = b
  \/ Code(a) \in 65..90 /\ Code(b) = Code(a) + 32
  \/ Code(b) \in 65..90 /\ Code(a) = Code(b) + 32

\* sub occurs in name, ASCII letters compared without regard to case.
ContainsFolded(name, sub) ==
  \E k \in 0..(Len(name) - Len(sub)) :
    \A j \in 1..Len(sub) : SameLetter(name[k + j], sub[j])

IdNames == [ i \in DOMAIN seed |-> << i, seed[i].name >> ]

GradeRank(i) ==
  1 + Cardinality({ j \in DOMAIN seed :
                      \/ seed[j].grade > seed[i].grade
                      \/ seed[j].grade = seed[i].grade /\ j < i })

\* C7: the descending query prints one (name, grade) pair per row, higher
\* grades first and equal grades in insertion order; the script's objects
\* give [(Alan Turing, 11), (Albert Einstein, 6)].
C7_GradeDescStable ==
  Printed("by_grade_desc") =>
    /\ Len(out["by_grade_desc"]) = Len(seed)
    /\ \A i \in DOMAIN seed :
         out["by_grade_desc"][GradeRank(i)] = << seed[i].name, seed[i].grade >>
    /\ seed = ScriptSeed =>
         out["by_grade_desc"] = << <<AlanTuring, 11>>, <<AlbertEinstein, 6>> >>

C7_Witness ==
  /\ Printed("by_grade_desc")
  /\ Len(seed) = 2
  /\ seed[1].grade = seed[2].grade
  /\ seed[1].name # seed[2].name
  /\ out["by_grade_desc"][1][1] = seed[1].name

\* ---- C8
\* C8: session.delete of a query result that is None ends the script: the
\* commit, the re-query, the bulk delete and the final query never run, the
\* table stays as it was, nothing more is printed and the exit status is 1;
\* status 0 is reached only by running the script to its end.
C8_ErrorAborts ==
  /\ pc = "error" =>
       /\ exit_status = Some(1)
       /\ ~ target.some
       /\ ~ Printed("requery") /\ ~ Printed("final")
       /\ table = ExpectedTable(2)
       /\ deleted = {}
       /\ ~ ENABLED Next
  /\ pc \in {"commit_delete", "requery", "bulk_delete", "final_query", "done"} =>
       \E i \in DOMAIN seed : seed[i].name = AlbertEinstein
  /\ exit_status = Some(0) => pc = "done"
  /\ exit_status = Some(1) => pc = "error"

C8_Witness == pc = "error" /\ Len(table) >= 1

\* ---- C9
IdsDistinct ==
  \A i, j \in DOMAIN table : i # j => table[i].id # table[j].id

\* Every row after the step was a row before it, under the same id.
IdsKept ==
  \A j \in DOMAIN table' :
    \E i \in DOMAIN table :
      /\ table[i].id = table'[j].id
      /\ table[i].name = table'[j].name
      /\ table[i].email = table'[j].email
      /\ table[i].birthday = table'[j].birthday

\* C9: the ids in the table are pairwise distinct in every state, and after
\* the insert no step changes the id of a row that stays in the table.
C9_IdsUniqueImmutable ==
  /\ [] IdsDistinct
  /\ [][ pc # "bulk_save" => IdsKept ]_vars

C9_Witness ==
  /\ pc = "done"
  /\ Len(table) >= 1
  /\ table[1].id = 2
  /\ table[1].grade = seed[2].grade + 2

\* ---- C10
\* C10: during the loop of the per-row phase the table is the one before the
\* phase, after the commit every stored grade is 1 higher, and no state has
\* the grades of two rows raised by different amounts.
C10_PerRowAtomic ==
  /\ pc = "update_loop" =>
       table = ExpectedTable(0) /\ committed = ExpectedTable(0)
  /\ pc = "print_after_update" =>
       \A i \in DOMAIN seed : table[i].grade = seed[i].grade + 1
  /\ \E k \in 0..2 :
       \A i \in DOMAIN table : table[i].grade = seed[table[i].id].grade + k

C10_Witness ==
  /\ pc = "update_loop"
  /\ iter # <<>>
  /\ \E id \in DOMAIN objs : objs[id].dirty

====
